---------------------------- MODULE Spec2Model ----------------------------
(***************************************************************************)
(* A model of the software renderer of proyecto3graficas: the frame loop   *)
(* of main (main.rs), render and its four stages, the vertex shader and    *)
(* the fragment-shader dispatch (shaders.rs).                              *)
(*                                                                         *)
(* Numbers.  An f32 is modelled in fixed point, in thousandths (3.0 is     *)
(* 3000, an angle of 1 rad is 1000); a colour channel is an integer        *)
(* 0..255; the u32 time counter is a pair <<hi, lo>> of 16-bit limbs, so   *)
(* that its 32-bit width is kept; a usize is a tuple of four 16-bit limbs. *)
(* The modules framebuffer, triangle, vertex, obj, color, fragment and     *)
(* camera are not in the source tree: what the model needs of them is      *)
(* taken from the design document and marked as such where it is defined.  *)
(***************************************************************************)
EXTENDS Integers, Sequences, FiniteSets, TLC

(***************************************************************************)
(* Bounds of the model.                                                    *)
(***************************************************************************)
\* Framebuffer width and height in pixels (800 x 600 in main, scaled down).
FbWidth == 2
FbHeight == 1
\* Loop iterations a run with keyboard input may start.
MaxFrames == 5
\* Fragments the rasterizer may emit in a run.
MaxFrags == 2
\* Key presses (N, or a pan with A, D, Q, E) that may occur in a run.
MaxInputs == 5
\* Longest vertex array given to primitive assembly.
MaxVerts == 7
\* Largest time value at which the orbital placement is evaluated.
MaxOrbitTime == 120

(***************************************************************************)
(* Integer helpers.                                                        *)
(***************************************************************************)
Abs(v) == IF v < 0 THEN -v ELSE v

Min(a, b) == IF a < b THEN a ELSE b

Max(a, b) == IF a < b THEN b ELSE a

Clamp(v, lo, hi) == Max(lo, Min(hi, v))

\* Floor of the square root of a non-negative integer (f32::sqrt, f32::hypot).
ISqrt(v) == CHOOSE r \in 0..(v + 1) : r * r <= v /\ (r + 1) * (r + 1) > v

\* Remainder with the sign of the dividend (the fractional part f32::fract
\* keeps the sign of its argument).
Rem(a, b) == IF a >= 0 THEN a % b ELSE -((-a) % b)

(***************************************************************************)
(* The u32 time counter, as limbs <<hi, lo>> of 16 bits each.              *)
(***************************************************************************)
Limb == 65536

U32Zero == <<0, 0>>

U32Max == <<Limb - 1, Limb - 1>>

U32Of(n) == <<n \div Limb, n % Limb>>

U32Lt(a, b) == a[1] < b[1] \/ (a[1] = b[1] /\ a[2] < b[2])

\* time + 1 with the wrap-around of a release build (wrapping add).
U32WrappingInc(t) ==
    IF t[2] < Limb - 1 THEN <<t[1], t[2] + 1>>
    ELSE IF t[1] < Limb - 1 THEN <<t[1] + 1, 0>>
    ELSE U32Zero

\* t modulo p, for 0 < p < 2^15.
U32Mod(t, p) == ((((t[1] % p) * (Limb % p)) % p) + (t[2] % p)) % p

(***************************************************************************)
(* Trigonometry in fixed point: angles in milliradians, results in         *)
(* thousandths.  An angle is first reduced modulo 2 pi.                    *)
(***************************************************************************)
\* std::f32::consts::PI in milliradians.
PiMrad == 3142

\* pi / 2 = 1570.8 mrad, rounded.
HalfPiMrad == (PiMrad + 1) \div 2

\* 2 pi = 6283.2 mrad, rounded.
TwoPiMrad == 2 * PiMrad - 1

\* `time as f32 * rate`, in milliradians modulo 2 pi (rate in mrad per tick).
AngleMrad(t, rate) == (U32Mod(t, TwoPiMrad) * (rate % TwoPiMrad)) % TwoPiMrad

\* Taylor polynomials on [0, pi/2].
SinQ(a) ==
    LET a2 == (a * a) \div 1000
        t3 == (a * a2) \div 6000
        t5 == (t3 * a2) \div 20000
        t7 == (t5 * a2) \div 42000
    IN  a - t3 + t5 - t7

CosQ(a) ==
    LET a2 == (a * a) \div 1000
        c2 == a2 \div 2
        c4 == (c2 * a2) \div 12000
        c6 == (c4 * a2) \div 30000
    IN  1000 - c2 + c4 - c6

Sin(a) ==
    IF a <= HalfPiMrad THEN SinQ(a)
    ELSE IF a <= PiMrad THEN SinQ(PiMrad - a)
    ELSE IF a <= PiMrad + HalfPiMrad THEN -SinQ(a - PiMrad)
    ELSE -SinQ(TwoPiMrad - a)

Cos(a) ==
    IF a <= HalfPiMrad THEN CosQ(a)
    ELSE IF a <= PiMrad THEN -CosQ(PiMrad - a)
    ELSE IF a <= PiMrad + HalfPiMrad THEN -CosQ(a - PiMrad)
    ELSE CosQ(TwoPiMrad - a)

(***************************************************************************)
(* Colours (module color, from the design document, section 4.6): a        *)
(* triple of channels 0..255 whose arithmetic saturates.                   *)
(***************************************************************************)
Channel(v) == Clamp(v, 0, 255)

Color_new(r, g, b) == <<r, g, b>>

Color_black == <<0, 0, 0>>

\* color * f32.
ColorMul(c, f) == [i \in 1..3 |-> Channel((c[i] * f) \div 1000)]

\* a.lerp(&b, t).
ColorLerp(a, b, t) == [i \in 1..3 |-> Channel(a[i] + ((b[i] - a[i]) * t) \div 1000)]

\* Color::to_hex: R<<16 | G<<8 | B.
to_hex(c) == c[1] * 65536 + c[2] * 256 + c[3]

(***************************************************************************)
(* The noise source (fastnoise_lite, an external library).  A Uniforms     *)
(* value carries a generator seeded with 1337; the model takes the field   *)
(* it samples to be constant over the coordinates, with the level drawn    *)
(* from NoiseLevels, so get_noise_2d and get_noise_3d return that level.   *)
(***************************************************************************)
NoiseLevels == {-500, 400, 800}

get_noise(u) == u.noise

(***************************************************************************)
(* The seven shading functions of shaders.rs.  A fragment f is a record    *)
(* with position, depth, intensity and vertex_position; uniforms u carry   *)
(* time and noise.                                                         *)
(***************************************************************************)
kamino_shader(f, u) ==
    LET noise_value == get_noise(u)
        detail_noise_value == get_noise(u)
        storm_intensity == (detail_noise_value \div 2) + 500
        lightning == Sin(AngleMrad(u.time, 1000)) * 10
        base_cloud == ColorMul(Color_new(144, 144, 144), 500)
        cloud_color == IF storm_intensity > 700 /\ lightning > 900
                       THEN ColorMul(base_cloud, 2000) ELSE base_cloud
        sky_color == Color_new(0, 61, 102)
        stormy_sky_color == ColorMul(sky_color, 1000 - storm_intensity \div 2)
        noise_color == IF noise_value > 300 THEN cloud_color ELSE stormy_sky_color
    IN  ColorMul(noise_color, f.intensity)

sol_shader(f, u) ==
    LET bright_color == Color_new(255, 255, 204)
        dark_color == Color_new(255, 51, 0)
        noise_value == (get_noise(u) + get_noise(u)) \div 2
        base_color == ColorLerp(dark_color, bright_color, noise_value)
        x == f.vertex_position[1]
        y == f.vertex_position[2]
        distance_from_center == ISqrt(x * x + y * y)
        radius == 500
        ratio == Clamp((distance_from_center * 1000) \div radius, 0, 1000)
        falloff == ((1000 - ratio) * (1000 - ratio)) \div 1000
        brightened_color == ColorMul(base_color, 1000 + falloff * 2)
    IN  ColorMul(brightened_color, f.intensity)

hoth_shader(f, u) ==
    LET snow_color == Color_new(255, 255, 255)
        ice_color == Color_new(173, 216, 230)
        noise_value == get_noise(u)
        base_color == IF noise_value > 300 THEN ice_color ELSE snow_color
        intensity_variation == 900 + noise_value \div 10
    IN  ColorMul(ColorMul(base_color, f.intensity), intensity_variation)

kashyyyk_shader(f, u) ==
    LET light_green == Color_new(144, 238, 144)
        medium_green == Color_new(34, 139, 34)
        dark_green == Color_new(139, 69, 19)
        terrain_color == Color_new(0, 100, 0)
        noise_value == get_noise(u)
        vegetation_color ==
            IF noise_value > 300
            THEN IF noise_value > 700
                 THEN ColorLerp(dark_green, medium_green, (noise_value - 700) * 3)
                 ELSE IF noise_value > 500
                      THEN ColorLerp(medium_green, light_green, (noise_value - 500) * 2)
                      ELSE light_green
            ELSE terrain_color
        intensity_variation == 900 + noise_value \div 10
    IN  ColorMul(ColorMul(vegetation_color, f.intensity), intensity_variation)

gaseoso_shader(f, u) ==
    LET base_color == Color_new(128, 0, 0)
        band_color == Color_new(255, 204, 153)
        storm_color == Color_new(192, 57, 43)
        noise_value == get_noise(u)
        band_intensity == (noise_value \div 2) + 500
        storm_noise == get_noise(u)
        storm_intensity == (storm_noise \div 2) + 500
        color == IF band_intensity > 600
                 THEN ColorLerp(base_color, band_color, band_intensity)
                 ELSE IF storm_intensity > 700 THEN storm_color ELSE base_color
    IN  ColorMul(color, f.intensity)

death_star_shader(f, u) ==
    LET x == f.vertex_position[1]
        y == f.vertex_position[2]
        line_spacing == 100
        line_width == 20
        circle_radius == 160
        center == <<0, 170, 0>>
        line_color == Color_new(128, 128, 128)
        circle_color == Color_new(64, 64, 64)
        background_color == Color_new(102, 102, 102)
        \* (x / line_spacing).fract().abs() < line_width
        in_vertical_line == Abs(Rem(x * 10, 1000)) < line_width
        in_horizontal_line == Abs(Rem(y * 10, 1000)) < line_width
        dx == x - center[1]
        dy == y - center[2]
        in_circle == dx * dx + dy * dy <= circle_radius * circle_radius
        final_color == IF in_circle THEN circle_color
                       ELSE IF in_vertical_line \/ in_horizontal_line
                            THEN line_color ELSE background_color
    IN  ColorMul(final_color, f.intensity)

tatooine_shader(f, u) ==
    LET base_rock_color == Color_new(139, 69, 19)
        mountain_color == Color_new(105, 105, 105)
        plain_color == Color_new(205, 133, 63)
        land_color == Color_new(163, 163, 117)
        base_noise == get_noise(u)
        mountain_noise == get_noise(u)
        continental_noise == get_noise(u)
        final_color ==
            IF base_noise > 600
            THEN ColorLerp(mountain_color, base_rock_color, mountain_noise)
            ELSE IF continental_noise < -300
                 THEN land_color
                 ELSE ColorLerp(plain_color, base_rock_color, continental_noise)
    IN  ColorMul(final_color, f.intensity)

ShaderNames ==
    {"tatooine", "death_star", "gaseoso", "kamino", "sol", "hoth", "kashyyyk"}

\* The shading function of that name applied to (f, u): a call through the
\* boxed closure of an object, or through an arm of fragment_shader.
CallShader(name, f, u) ==
    CASE name = "tatooine" -> tatooine_shader(f, u)
      [] name = "death_star" -> death_star_shader(f, u)
      [] name = "gaseoso" -> gaseoso_shader(f, u)
      [] name = "kamino" -> kamino_shader(f, u)
      [] name = "sol" -> sol_shader(f, u)
      [] name = "hoth" -> hoth_shader(f, u)
      [] name = "kashyyyk" -> kashyyyk_shader(f, u)

(***************************************************************************)
(* fragment_shader: the dispatch by integer tag.                           *)
(***************************************************************************)
\* The match with the arms of 1 and 2 exchanged and 7 given to a shader.
ShaderArmMutant(current_shader) ==
    CASE current_shader = 0 -> "tatooine"
      [] current_shader = 1 -> "gaseoso"
      [] current_shader = 2 -> "death_star"
      [] current_shader = 3 -> "kamino"
      [] current_shader = 4 -> "sol"
      [] current_shader = 5 -> "hoth"
      [] current_shader = 6 -> "kashyyyk"
      [] current_shader = 7 -> "kashyyyk"
      [] OTHER -> "black"

\* The arm of the match that a tag selects: a shader, or the `_` arm.
ShaderArm(current_shader) ==
    CASE current_shader = 0 -> "tatooine"
      [] current_shader = 1 -> "death_star"
      [] current_shader = 2 -> "gaseoso"
      [] current_shader = 3 -> "kamino"
      [] current_shader = 4 -> "sol"
      [] current_shader = 5 -> "hoth"
      [] current_shader = 6 -> "kashyyyk"
      [] OTHER -> "black"

\* The result, with the shader that was invoked for it ("none": no call).
fragment_shader(f, u, current_shader) ==
    LET arm == ShaderArm(current_shader)
    IN  IF arm = "black"
        THEN [color |-> Color_black, invoked |-> "none"]
        ELSE [color |-> CallShader(arm, f, u), invoked |-> arm]

(***************************************************************************)
(* f32 values that may be infinite or NaN (the result of a division):      *)
(* [k |-> "fin", v |-> thousandths], [k |-> "inf", v |-> sign] or          *)
(* [k |-> "nan", v |-> 0].                                                 *)
(***************************************************************************)
Fin(v) == [k |-> "fin", v |-> v]

Inf(sign) == [k |-> "inf", v |-> sign]

NaN == [k |-> "nan", v |-> 0]

Sign(v) == IF v < 0 THEN -1 ELSE 1

IsFinite(a) == a.k = "fin"

\* a / w for finite a and w (IEEE 754: x/0 is infinite, 0/0 is NaN).
FDiv(a, w) ==
    IF w = 0
    THEN IF a = 0 THEN NaN ELSE Inf(Sign(a))
    ELSE Fin((a * 1000) \div w)

\* m * a for a finite matrix entry m, in units (0 * inf is NaN).
FScale(m, a) ==
    CASE a.k = "nan" -> NaN
      [] a.k = "inf" -> IF m = 0 THEN NaN ELSE Inf(Sign(m) * a.v)
      [] OTHER -> Fin(m * a.v)

FAdd(a, b) ==
    CASE a.k = "nan" \/ b.k = "nan" -> NaN
      [] a.k = "inf" /\ b.k = "inf" -> IF a.v = b.v THEN a ELSE NaN
      [] a.k = "inf" -> a
      [] b.k = "inf" -> b
      [] OTHER -> Fin(a.v + b.v)

(***************************************************************************)
(* 4 x 4 matrices, as four rows of entries in thousandths.                 *)
(***************************************************************************)
Mat4Mul(A, B) ==
    [i \in 1..4 |-> [j \in 1..4 |->
        (A[i][1] * B[1][j] + A[i][2] * B[2][j]
           + A[i][3] * B[3][j] + A[i][4] * B[4][j]) \div 1000]]

Mat4Vec(A, v) ==
    [i \in 1..4 |->
        (A[i][1] * v[1] + A[i][2] * v[2] + A[i][3] * v[3] + A[i][4] * v[4])
            \div 1000]

\* rotation holds the three Euler angles in milliradians, in [0, 2 pi).
create_model_matrix(translation, scale, rotation) ==
    LET sin_x == Sin(rotation[1])
        cos_x == Cos(rotation[1])
        sin_y == Sin(rotation[2])
        cos_y == Cos(rotation[2])
        sin_z == Sin(rotation[3])
        cos_z == Cos(rotation[3])
        rotation_matrix_x == << <<1000, 0, 0, 0>>,
                                <<0, cos_x, -sin_x, 0>>,
                                <<0, sin_x, cos_x, 0>>,
                                <<0, 0, 0, 1000>> >>
        rotation_matrix_y == << <<cos_y, 0, sin_y, 0>>,
                                <<0, 1000, 0, 0>>,
                                <<-sin_y, 0, cos_y, 0>>,
                                <<0, 0, 0, 1000>> >>
        rotation_matrix_z == << <<cos_z, -sin_z, 0, 0>>,
                                <<sin_z, cos_z, 0, 0>>,
                                <<0, 0, 1000, 0>>,
                                <<0, 0, 0, 1000>> >>
        rotation_matrix ==
            Mat4Mul(Mat4Mul(rotation_matrix_z, rotation_matrix_y), rotation_matrix_x)
        transform_matrix == << <<scale, 0, 0, translation[1]>>,
                               <<0, scale, 0, translation[2]>>,
                               <<0, 0, scale, translation[3]>>,
                               <<0, 0, 0, 1000>> >>
    IN  Mat4Mul(transform_matrix, rotation_matrix)

\* look_at(eye, center, up) of nalgebra_glm for a camera that looks down the
\* negative z axis with up = +y (the camera main constructs, and any zoom of
\* it): the rotation part is the identity and the translation is -eye.
create_view_matrix(eye, center, up) ==
    << <<1000, 0, 0, -eye[1]>>,
       <<0, 1000, 0, -eye[2]>>,
       <<0, 0, 1000, -eye[3]>>,
       <<0, 0, 0, 1000>> >>

\* perspective(fov, aspect_ratio, 0.1, 1000.0) of nalgebra_glm, whose
\* parameters are (aspect, fovy, near, far): f = 1 / tan(aspect_ratio / 2)
\* = 1.271, f / fov = 1.618, and the last row is (0, 0, -1, 0), so that the
\* w of a transformed point is minus its view-space z.
create_perspective_matrix(window_width, window_height) ==
    << <<1618, 0, 0, 0>>,
       <<0, 1271, 0, 0>>,
       <<0, 0, -1000, -200>>,
       <<0, 0, -1000, 0>> >>

\* Entries in units, not thousandths.
create_viewport_matrix(width, height) ==
    << <<width \div 2, 0, 0, width \div 2>>,
       <<0, -(height \div 2), 0, height \div 2>>,
       <<0, 0, 1, 0>>,
       <<0, 0, 0, 1>> >>

(***************************************************************************)
(* vertex_shader.  The transformed normal is left out: no stage of render  *)
(* reads it.                                                               *)
(***************************************************************************)
vertex_shader(vertex, uniforms) ==
    LET position == <<vertex.position[1], vertex.position[2], vertex.position[3], 1000>>
        transformed ==
            Mat4Vec(Mat4Mul(Mat4Mul(uniforms.projection_matrix, uniforms.view_matrix),
                            uniforms.model_matrix), position)
        w == transformed[4]
        transformed_position ==
            <<FDiv(transformed[1], w), FDiv(transformed[2], w),
              FDiv(transformed[3], w), Fin(1000)>>
        vp == uniforms.viewport_matrix
        screen_position ==
            [i \in 1..4 |->
                FAdd(FAdd(FScale(vp[i][1], transformed_position[1]),
                          FScale(vp[i][2], transformed_position[2])),
                     FAdd(FScale(vp[i][3], transformed_position[3]),
                          FScale(vp[i][4], transformed_position[4])))]
    IN  [position |-> vertex.position,
         transformed_position |->
            <<screen_position[1], screen_position[2], screen_position[3]>>]

(***************************************************************************)
(* Primitive assembly of render: the loop over (0..n).step_by(3), on the   *)
(* indices of the transformed vertices.                                    *)
(***************************************************************************)
\* The loop with the guard i + 2 <= len.
RECURSIVE AssembleFromMutant(_, _, _)
AssembleFromMutant(i, n, triangles) ==
    IF i >= n THEN triangles
    ELSE AssembleFromMutant(i + 3, n,
            IF i + 2 <= n THEN Append(triangles, <<i, i + 1, i + 2>>) ELSE triangles)

RECURSIVE AssembleFrom(_, _, _)
AssembleFrom(i, n, triangles) ==
    IF i >= n THEN triangles
    ELSE AssembleFrom(i + 3, n,
            IF i + 2 < n THEN Append(triangles, <<i, i + 1, i + 2>>) ELSE triangles)

PrimitiveAssembly(n) == AssembleFrom(0, n, <<>>)

(***************************************************************************)
(* The objects of the scene (solar_objects) and their orbital placement.   *)
(***************************************************************************)
solar_objects ==
    << [shader |-> "sol", initial_translation |-> <<0, 0, 0>>,
        scale |-> 1500, orbital_speed |-> 0],
       [shader |-> "tatooine", initial_translation |-> <<3000, 0, 0>>,
        scale |-> 500, orbital_speed |-> 10],
       [shader |-> "hoth", initial_translation |-> <<5000, 0, 0>>,
        scale |-> 400, orbital_speed |-> 12],
       [shader |-> "kamino", initial_translation |-> <<0, 6000, 0>>,
        scale |-> 600, orbital_speed |-> 14],
       [shader |-> "death_star", initial_translation |-> <<0, -4000, 0>>,
        scale |-> 700, orbital_speed |-> 16] >>

NumObjects == Len(solar_objects)

\* The placement with the orbit in the x-z plane, as calculate_orbit_position
\* (a function main never calls) would have it.
OrbitTranslationMutant(initial_translation, t, orbital_speed) ==
    LET angle == AngleMrad(t, orbital_speed)
    IN  <<(initial_translation[1] * Cos(angle)) \div 1000,
          initial_translation[2],
          (initial_translation[1] * Sin(angle)) \div 1000>>

\* The translation the loop body computes for an object at a time.
OrbitTranslation(initial_translation, t, orbital_speed) ==
    LET angle == AngleMrad(t, orbital_speed)
    IN  <<(initial_translation[1] * Cos(angle)
             - initial_translation[2] * Sin(angle)) \div 1000,
          (initial_translation[1] * Sin(angle)
             + initial_translation[2] * Cos(angle)) \div 1000,
          initial_translation[3]>>

(***************************************************************************)
(* usize, as four 16-bit limbs, most significant first, and the cast       *)
(* `as usize` of a signed integer: the two's complement bit pattern, sign  *)
(* extended to 64 bits, read as unsigned.                                  *)
(***************************************************************************)
UsizeOf(n) == <<0, 0, n \div Limb, n % Limb>>

AsUsize(v) ==
    IF v >= 0 THEN UsizeOf(v)
    ELSE <<Limb - 1, Limb - 1,
           (Limb - 1) - ((-v - 1) \div Limb), (Limb - 1) - ((-v - 1) % Limb)>>

RECURSIVE LimbsLt(_, _, _)
LimbsLt(a, b, i) ==
    IF i > Len(a) THEN FALSE
    ELSE IF a[i] # b[i] THEN a[i] < b[i]
    ELSE LimbsLt(a, b, i + 1)

UsizeLt(a, b) == LimbsLt(a, b, 1)

\* A usize below 2^31 as a number.
UsizeToNat(a) == a[3] * Limb + a[4]

(***************************************************************************)
(* The framebuffer (module framebuffer, from the design document, section  *)
(* 4.5): a colour buffer and a depth buffer of width * height cells, and   *)
(* the current colour.  A framebuffer value is a record fb with buffer,    *)
(* zbuffer and current_color.                                              *)
(***************************************************************************)
Pixels == 0..(FbWidth * FbHeight - 1)

\* f32::INFINITY, the depth every cell is reset to.
DepthInfinity == 2147483647

BackgroundColor == 0

StarColor == 16777215

\* clear, set_background_color(0x000000) and draw_stars, with the stars on
\* the cells of the set stars.
ResetFramebuffer(fb, stars) ==
    [buffer |-> [p \in Pixels |-> IF p \in stars THEN StarColor ELSE BackgroundColor],
     zbuffer |-> [p \in Pixels |-> DepthInfinity],
     current_color |-> fb.current_color]

set_current_color(fb, color) == [fb EXCEPT !.current_color = color]

\* point(x, y, depth): the depth test and the write; smaller depth wins.
point(fb, x, y, depth) ==
    LET index == y * FbWidth + x
    IN  IF index \in Pixels /\ fb.zbuffer[index] > depth
        THEN [fb EXCEPT !.buffer[index] = fb.current_color,
                        !.zbuffer[index] = depth]
        ELSE fb

(***************************************************************************)
(* Fragment processing of render.  The state threaded through the loop is  *)
(* the framebuffer fb, the calls the loop has made (shaded: the set of     *)
(* fragments given to the shading function; points: the set of point       *)
(* calls, each with the fragment it was made for and the current colour at *)
(* the call) and drawn: per pixel, the <<depth, colour>> pairs submitted.  *)
(***************************************************************************)
\* x < framebuffer.width && y < framebuffer.height, on usize values.
InBoundsMutant(x, y) ==
    ~UsizeLt(UsizeOf(FbWidth), x) /\ ~UsizeLt(UsizeOf(FbHeight), y)

InBounds(x, y) ==
    UsizeLt(x, UsizeOf(FbWidth)) /\ UsizeLt(y, UsizeOf(FbHeight))

\* The body of the loop with point called before set_current_color.
FragmentStepMutant(st, fragment, shader, uniforms) ==
    LET x == AsUsize(fragment.position[1])
        y == AsUsize(fragment.position[2])
    IN  IF InBounds(x, y)
        THEN LET color == to_hex(CallShader(shader, fragment, uniforms))
                 px == UsizeToNat(x)
                 py == UsizeToNat(y)
                 fb1 == point(st.fb, px, py, fragment.depth)
                 fb2 == set_current_color(fb1, color)
             IN  [fb |-> fb2,
                  shaded |-> st.shaded \cup {fragment},
                  points |-> st.points \cup
                                {[x |-> px, y |-> py, depth |-> fragment.depth,
                                  color |-> st.fb.current_color, fragment |-> fragment]},
                  drawn |-> [st.drawn EXCEPT ![py * FbWidth + px] =
                                @ \cup {<<fragment.depth, color>>}]]
        ELSE st

\* The body of the loop over the fragments, for one fragment.
FragmentStep(st, fragment, shader, uniforms) ==
    LET x == AsUsize(fragment.position[1])
        y == AsUsize(fragment.position[2])
    IN  IF InBounds(x, y)
        THEN LET shaded_color == CallShader(shader, fragment, uniforms)
                 color == to_hex(shaded_color)
                 px == UsizeToNat(x)
                 py == UsizeToNat(y)
                 fb1 == set_current_color(st.fb, color)
                 fb2 == point(fb1, px, py, fragment.depth)
             IN  [fb |-> fb2,
                  shaded |-> st.shaded \cup {fragment},
                  points |-> st.points \cup
                                {[x |-> px, y |-> py, depth |-> fragment.depth,
                                  color |-> fb1.current_color, fragment |-> fragment]},
                  drawn |-> [st.drawn EXCEPT ![py * FbWidth + px] =
                                @ \cup {<<fragment.depth, color>>}]]
        ELSE st

RECURSIVE FragmentProcessing(_, _, _, _, _)
FragmentProcessing(st, fragments, i, shader, uniforms) ==
    IF i > Len(fragments) THEN st
    ELSE FragmentProcessing(FragmentStep(st, fragments[i], shader, uniforms),
                            fragments, i + 1, shader, uniforms)

(***************************************************************************)
(* The camera (module camera, from the design document, section 4.1).      *)
(* Only its center is modelled: orbit and zoom move the eye alone.         *)
(***************************************************************************)
\* move_to_next_planet(&solar_objects, index): the new center.  The call is
\* given the object list and the index and nothing else, so the position it
\* can retarget to is the one the list holds for the object.
move_to_next_planet(objects, index) == objects[index + 1].initial_translation

\* move_center(movement): the new center.
move_center(c, movement) ==
    <<c[1] + movement[1], c[2] + movement[2], c[3] + movement[3]>>

(***************************************************************************)
(* The state of the program.                                               *)
(***************************************************************************)
VARIABLES
    pc,                    \* where main is: "loop", "key", "input", "reset",
                           \* "tick", "objects", "present", "done", "panicked"
    frames,                \* loop iterations started
    frame_budget,          \* loop iterations the run may start
    time,                  \* the u32 counter `time`
    current_planet_index,
    center,                \* camera.center
    framebuffer,           \* the Framebuffer
    presented,             \* what the window shows (update_with_buffer)
    obj,                   \* the for loop over solar_objects: next index
    mesh_len,              \* vertex_arrays.len()
    fragments,             \* the fragments of the last render call, as a set
    calls,                 \* the calls the last render call made
    drawn,                 \* this frame's submitted <<depth, colour>> per pixel
    frame_log,             \* the operations of the current loop iteration
    tracking,              \* a retarget happened and no pan since
    diverged,              \* presented frames in a row, while tracking, with
                           \* the center off the selected object's placement
    frag_budget,           \* fragments the rasterizer may still emit
    input_budget,          \* keyboard events that may still occur
    fn_in,                 \* the argument of a function applied on its own
    fn_out                 \* and its result

vars == <<pc, frames, frame_budget, time, current_planet_index, center, framebuffer, presented,
          obj, mesh_len, fragments, calls, drawn, frame_log, tracking, diverged,
          frag_budget, input_budget, fn_in, fn_out>>

(***************************************************************************)
(* What the rasterizer (module triangle) may hand to fragment processing:  *)
(* fragments on every pixel of the buffer, and fragments just outside each *)
(* of its four edges.  Fragment.position holds integer pixel coordinates   *)
(* (design document, section 3), signed.                                   *)
(***************************************************************************)
Depths == {100, 900}

Intensities == {500, 1000}

InsideFragments ==
    [position : (0..(FbWidth - 1)) \X (0..(FbHeight - 1)),
     depth : Depths, intensity : Intensities, vertex_position : {<<0, 0>>}]

OutsideFragments ==
    [position : {<<-1, 0>>, <<FbWidth, 0>>, <<0, -1>>, <<0, FbHeight>>},
     depth : {100}, intensity : {1000}, vertex_position : {<<0, 0>>}]

Fragments == InsideFragments \cup OutsideFragments

FragmentSeqs(k) == UNION {[1..n -> Fragments] : n \in 0..k}

\* The vertex arrays a run may have loaded: too short for a triangle, or one
\* triangle and a trailing vertex.
MeshLens == {2, 4}

\* The noise level of the generator create_noise returns.
create_noise == 400

NoFn == [op |-> "none"]

EmptyFramebuffer ==
    [buffer |-> [p \in Pixels |-> BackgroundColor],
     zbuffer |-> [p \in Pixels |-> DepthInfinity],
     current_color |-> StarColor]

\* The state after the declarations of main, before the loop.
InitMain(t0, iterations, frags, inputs) ==
    /\ pc = "loop"
    /\ frames = 0
    /\ frame_budget = iterations
    /\ time = t0
    /\ current_planet_index = 0
    /\ center = <<0, 0, 0>>
    /\ framebuffer = EmptyFramebuffer
    /\ presented = [shown |-> FALSE, buffer |-> EmptyFramebuffer.buffer]
    /\ obj = 0
    /\ mesh_len \in MeshLens
    /\ fragments = {}
    /\ calls = [shaded |-> {}, points |-> {}]
    /\ drawn = [p \in Pixels |-> {}]
    /\ frame_log = <<>>
    /\ tracking = FALSE
    /\ diverged = 0
    /\ frag_budget = frags
    /\ input_budget = inputs

(***************************************************************************)
(* The loop of main, one action per statement group.                       *)
(***************************************************************************)
\* while window.is_open() && !window.is_key_down(Key::Escape)
LoopCondition ==
    /\ pc = "loop"
    /\ \E open \in BOOLEAN :
          /\ open => frames < frame_budget
          /\ IF open
             THEN /\ pc' = "key"
                  /\ frames' = frames + 1
                  /\ frame_log' = <<[op |-> "begin", index |-> current_planet_index,
                                     time |-> time]>>
             ELSE /\ pc' = "done"
                  /\ UNCHANGED <<frames, frame_log>>
    /\ UNCHANGED <<frame_budget, time, current_planet_index, center, framebuffer,
                   presented, obj, mesh_len, fragments, calls, drawn, tracking,
                   diverged, frag_budget, input_budget, fn_in, fn_out>>

\* The increment that stops at the last object instead of wrapping.
NextIndexMutant(index) == IF index + 1 >= NumObjects THEN index ELSE index + 1

NextIndex(index) == (index + 1) % NumObjects

\* if window.is_key_pressed(Key::N, KeyRepeat::No) { ... }
NextObjectKey ==
    /\ pc = "key"
    /\ \E pressed \in BOOLEAN :
          /\ pressed => input_budget > 0
          /\ IF pressed
             THEN /\ current_planet_index' = NextIndex(current_planet_index)
                  /\ center' = move_to_next_planet(solar_objects, current_planet_index')
                  /\ tracking' = TRUE
                  /\ diverged' = 0
                  /\ input_budget' = input_budget - 1
                  /\ frame_log' = Append(frame_log,
                        [op |-> "retarget", index |-> current_planet_index'])
             ELSE UNCHANGED <<current_planet_index, center, tracking, diverged,
                              input_budget, frame_log>>
    /\ pc' = "input"
    /\ UNCHANGED <<frames, frame_budget, time, framebuffer, presented, obj, mesh_len, fragments,
                   calls, drawn, frag_budget, fn_in, fn_out>>

\* handle_input(&window, &mut camera): dx and dy are the movement the keys
\* A, D, Q and E add up to (movement_speed = 1.0).
HandleInput ==
    /\ pc = "input"
    /\ \E dx \in {-1, 0, 1}, dy \in {-1, 0, 1} :
          LET moved == dx # 0 \/ dy # 0
          IN  /\ moved => input_budget > 0
              /\ center' = IF moved
                           THEN move_center(center, <<dx * 1000, dy * 1000, 0>>)
                           ELSE center
              /\ tracking' = (tracking /\ ~moved)
              /\ input_budget' = IF moved THEN input_budget - 1 ELSE input_budget
    /\ frame_log' = Append(frame_log, [op |-> "input"])
    /\ pc' = "reset"
    /\ UNCHANGED <<frames, frame_budget, time, current_planet_index, framebuffer, presented, obj,
                   mesh_len, fragments, calls, drawn, diverged, frag_budget,
                   fn_in, fn_out>>

\* Where draw_stars may put a star: it places them at random, and one cell
\* that may or may not hold a star is enough for a fragment to be drawn over
\* a star and over the background.
StarCells == {0}

\* framebuffer.clear(); set_background_color(0x000000); draw_stars(15)
ResetFrame ==
    /\ pc = "reset"
    /\ \E stars \in SUBSET StarCells :
          framebuffer' = ResetFramebuffer(framebuffer, stars)
    /\ drawn' = [p \in Pixels |-> {}]
    /\ frame_log' = Append(frame_log, [op |-> "reset"])
    /\ pc' = "tick"
    /\ UNCHANGED <<frames, frame_budget, time, current_planet_index, center, presented, obj,
                   mesh_len, fragments, calls, tracking, diverged, frag_budget,
                   input_budget, fn_in, fn_out>>

\* time += 1: a build with overflow checks panics at u32::MAX, one without
\* wraps around.
Tick ==
    /\ pc = "tick"
    /\ \E overflow_checks \in BOOLEAN :
          IF time = U32Max /\ overflow_checks
          THEN /\ pc' = "panicked"
               /\ UNCHANGED <<time, obj>>
          ELSE /\ time' = U32WrappingInc(time)
               /\ pc' = "objects"
               /\ obj' = 0
    /\ UNCHANGED <<frames, frame_budget, current_planet_index, center, framebuffer, presented,
                   mesh_len, fragments, calls, drawn, frame_log, tracking, diverged,
                   frag_budget, input_budget, fn_in, fn_out>>

\* The loop over the objects left after its first iteration.
AfterRenderMutant(o) == "present"

\* Where main goes after the render call for the object at index o.
AfterRender(o) == IF o + 1 >= NumObjects THEN "present" ELSE "objects"

\* One iteration of `for (...) in &solar_objects`: the placement, the
\* uniforms and the whole render call (assembly, rasterization by the
\* module triangle, fragment processing).
RenderObject ==
    /\ pc = "objects"
    /\ obj < NumObjects
    /\ LET object == solar_objects[obj + 1]
           translation == OrbitTranslation(object.initial_translation, time,
                                           object.orbital_speed)
           uniforms == [time |-> time, noise |-> create_noise,
                        translation |-> translation]
           triangles == PrimitiveAssembly(mesh_len)
       IN  /\ \E frs \in FragmentSeqs(IF Len(triangles) = 0 THEN 0 ELSE frag_budget) :
                LET st == FragmentProcessing(
                              [fb |-> framebuffer, shaded |-> {}, points |-> {},
                               drawn |-> drawn],
                              frs, 1, object.shader, uniforms)
                IN  /\ framebuffer' = st.fb
                    /\ calls' = [shaded |-> st.shaded, points |-> st.points]
                    /\ drawn' = st.drawn
                    /\ fragments' = {frs[i] : i \in 1..Len(frs)}
                    /\ frag_budget' = frag_budget - Len(frs)
           /\ frame_log' = Append(frame_log,
                 [op |-> "render", index |-> obj, time |-> time,
                  translation |-> translation])
    /\ obj' = obj + 1
    /\ pc' = AfterRender(obj)
    /\ UNCHANGED <<frames, frame_budget, time, current_planet_index, center, presented, mesh_len,
                   tracking, diverged, input_budget, fn_in, fn_out>>

\* The translation this frame's render call of object index got, if any.
PlacedAt(log, index) ==
    {e.translation : e \in {log[i] : i \in {j \in 1..Len(log) :
                                   log[j].op = "render" /\ log[j].index = index}}}

\* window.update_with_buffer(&framebuffer.buffer, ...); sleep(frame_delay)
Present ==
    /\ pc = "present"
    /\ presented' = [shown |-> TRUE, buffer |-> framebuffer.buffer]
    /\ frame_log' = Append(frame_log, [op |-> "present"])
    /\ diverged' = IF tracking /\ center \notin PlacedAt(frame_log, current_planet_index)
                   THEN diverged + 1 ELSE 0
    /\ pc' = "loop"
    /\ UNCHANGED <<frames, frame_budget, time, current_planet_index, center, framebuffer, obj,
                   mesh_len, fragments, calls, drawn, tracking, frag_budget,
                   input_budget, fn_in, fn_out>>

Next ==
    \/ LoopCondition
    \/ NextObjectKey
    \/ HandleInput
    \/ ResetFrame
    \/ Tick
    \/ RenderObject
    \/ Present

\* The first frame of a run whose keyboard is idle, with the rasterizer
\* emitting fragments.
Init == InitMain(U32Zero, 1, MaxFrags, 0) /\ fn_in = NoFn /\ fn_out = NoFn

Spec == Init /\ [][Next]_vars

\* A run with keyboard input, the mesh rasterizing to no fragment.
InitLoop == InitMain(U32Zero, MaxFrames, 0, MaxInputs) /\ fn_in = NoFn /\ fn_out = NoFn

SpecLoop == InitLoop /\ [][Next]_vars

\* A run that has been rendering, untouched, for 2^32 - 2 frames.
InitWrap ==
    InitMain(<<Limb - 1, Limb - 2>>, 3, 1, 0) /\ fn_in = NoFn /\ fn_out = NoFn

SpecWrap == InitWrap /\ [][Next]_vars

(***************************************************************************)
(* The functions of the pipeline applied on their own: fn_in is drawn from *)
(* the inputs below and the action of its function writes fn_out.          *)
(***************************************************************************)
AssemblyInputs == [op : {"assembly"}, n : 0..MaxVerts]

OrbitInputs ==
    [op : {"orbit"}, index : 0..(NumObjects - 1), time : 0..MaxOrbitTime]

\* Vertices of the unit sphere; the eye on the z axis, at the distance main
\* starts with and at the radius of the largest object.
VertexInputs ==
    [op : {"vertex"},
     position : {<<0, 0, 1000>>, <<1000, 0, 0>>, <<0, 1000, 0>>, <<0, 0, -1000>>},
     index : 0..(NumObjects - 1), time : {0, 100}, eye_z : {10000, 1500}]

FragmentInputs ==
    [op : {"fragment"}, tag : 0..255, intensity : Intensities,
     vertex_position : {<<0, 0>>, <<0, 170>>, <<250, 250>>},
     noise : NoiseLevels, time : {0, 2}]

FnInputs == AssemblyInputs \cup OrbitInputs \cup VertexInputs \cup FragmentInputs

\* The uniforms main builds for an object, with the camera eye at (0, 0, eye_z).
UniformsFor(index, t, eye_z) ==
    LET object == solar_objects[index + 1]
        translation == OrbitTranslation(object.initial_translation, U32Of(t),
                                        object.orbital_speed)
        rotation == <<0, AngleMrad(U32Of(t), 10), 0>>
    IN  [model_matrix |-> create_model_matrix(translation, object.scale, rotation),
         view_matrix |-> create_view_matrix(<<0, 0, eye_z>>, <<0, 0, 0>>, <<0, 1000, 0>>),
         projection_matrix |-> create_perspective_matrix(800, 600),
         viewport_matrix |-> create_viewport_matrix(800, 600),
         time |-> U32Of(t),
         noise |-> create_noise]

ApplyAssembly ==
    /\ fn_in.op = "assembly"
    /\ fn_out = NoFn
    /\ fn_out' = [op |-> "assembly", triangles |-> PrimitiveAssembly(fn_in.n)]
    /\ UNCHANGED <<pc, frames, frame_budget, time, current_planet_index, center,
                   framebuffer, presented, obj, mesh_len, fragments, calls, drawn,
                   frame_log, tracking, diverged, frag_budget, input_budget, fn_in>>

ApplyOrbit ==
    /\ fn_in.op = "orbit"
    /\ fn_out = NoFn
    /\ LET object == solar_objects[fn_in.index + 1]
       IN  fn_out' = [op |-> "orbit",
                      translation |-> OrbitTranslation(object.initial_translation,
                                          U32Of(fn_in.time), object.orbital_speed)]
    /\ UNCHANGED <<pc, frames, frame_budget, time, current_planet_index, center,
                   framebuffer, presented, obj, mesh_len, fragments, calls, drawn,
                   frame_log, tracking, diverged, frag_budget, input_budget, fn_in>>

ApplyVertexShader ==
    /\ fn_in.op = "vertex"
    /\ fn_out = NoFn
    /\ fn_out' = [op |-> "vertex",
                  vertex |-> vertex_shader([position |-> fn_in.position],
                                 UniformsFor(fn_in.index, fn_in.time, fn_in.eye_z))]
    /\ UNCHANGED <<pc, frames, frame_budget, time, current_planet_index, center,
                   framebuffer, presented, obj, mesh_len, fragments, calls, drawn,
                   frame_log, tracking, diverged, frag_budget, input_budget, fn_in>>

\* The fragment and the uniforms of a FragmentInputs record.
FragmentOf(in) ==
    [position |-> <<0, 0>>, depth |-> 100, intensity |-> in.intensity,
     vertex_position |-> in.vertex_position]

ShadingUniformsOf(in) == [time |-> U32Of(in.time), noise |-> in.noise]

ApplyFragmentShader ==
    /\ fn_in.op = "fragment"
    /\ fn_out = NoFn
    /\ fn_out' = [op |-> "fragment",
                  result |-> fragment_shader(FragmentOf(fn_in), ShadingUniformsOf(fn_in),
                                             fn_in.tag)]
    /\ UNCHANGED <<pc, frames, frame_budget, time, current_planet_index, center,
                   framebuffer, presented, obj, mesh_len, fragments, calls, drawn,
                   frame_log, tracking, diverged, frag_budget, input_budget, fn_in>>

NextFn ==
    \/ ApplyAssembly
    \/ ApplyOrbit
    \/ ApplyVertexShader
    \/ ApplyFragmentShader

InitFn ==
    /\ InitMain(U32Zero, 0, 0, 0)
    /\ fn_in \in FnInputs
    /\ fn_out = NoFn

SpecFn == InitFn /\ [][NextFn]_vars

(***************************************************************************)
(* The claims.                                                             *)
(***************************************************************************)
OutOfBounds(f) ==
    \/ f.position[1] < 0
    \/ f.position[2] < 0
    \/ f.position[1] >= FbWidth
    \/ f.position[2] >= FbHeight

MinDepth(pairs) == CHOOSE d \in {q[1] : q \in pairs} : \A q \in pairs : d <= q[1]

\* C3: in a frame, a pixel that fragments have been submitted to holds the
\* depth and the colour of a submitted fragment of the smallest depth,
\* whatever the order of submission; a fragment that lost the depth test
\* has left neither its depth nor its colour.
C3_DepthTestOrderIndependent ==
    \A p \in Pixels :
       drawn[p] # {} =>
          /\ framebuffer.zbuffer[p] = MinDepth(drawn[p])
          /\ <<framebuffer.zbuffer[p], framebuffer.buffer[p]>> \in drawn[p]

\* C3's case: the last render call submitted a fragment to a pixel that
\* already held a nearer fragment of another colour, and lost.
C3_Witness ==
    \E c \in calls.points :
       LET p == c.y * FbWidth + c.x
       IN  /\ c.depth > framebuffer.zbuffer[p]
           /\ c.color # framebuffer.buffer[p]
           /\ Cardinality(drawn[p]) >= 2

\* C3's other order: the last render call submitted the nearer fragment to
\* a pixel that held a farther one of another colour, and won.
C3_WitnessNearerLast ==
    \E c \in calls.points :
       LET p == c.y * FbWidth + c.x
       IN  /\ c.depth = framebuffer.zbuffer[p]
           /\ c.color = framebuffer.buffer[p]
           /\ \E q \in drawn[p] : q[1] > c.depth /\ q[2] # c.color

\* C2: for n vertices primitive assembly yields n \div 3 triangles, the k-th
\* (from 0) made of the vertices 3k, 3k+1, 3k+2 in that order, no vertex in
\* two triangles, the n % 3 trailing vertices in none; for n < 3 it yields
\* no triangle.
C2_ConsecutiveTriples ==
    fn_out.op = "assembly" =>
       LET n == fn_in.n
           triangles == fn_out.triangles
       IN  /\ Len(triangles) = n \div 3
           /\ \A k \in 1..Len(triangles) :
                 triangles[k] = <<3 * (k - 1), 3 * (k - 1) + 1, 3 * (k - 1) + 2>>
           /\ \A k \in 1..Len(triangles) : \A j \in 1..3 : triangles[k][j] < n
           /\ \A v \in 0..(n - 1) :
                 Cardinality({k \in 1..Len(triangles) :
                                 \E j \in 1..3 : triangles[k][j] = v}) <= 1
           /\ \A v \in (3 * (n \div 3))..(n - 1) :
                 \A k \in 1..Len(triangles) : \A j \in 1..3 : triangles[k][j] # v
           /\ n < 3 => triangles = <<>>

\* C2's case: a vertex count that is not a multiple of three and gives a
\* triangle, so that trailing vertices are dropped.
C2_Witness ==
    /\ fn_out.op = "assembly"
    /\ fn_in.n % 3 = 2
    /\ Len(fn_out.triangles) >= 1

\* C2's other case: fewer than three vertices.
C2_WitnessNoTriangle ==
    /\ fn_out.op = "assembly"
    /\ fn_in.n = 2
    /\ fn_out.triangles = <<>>

\* C5 (as stated): whatever the vertex and the uniforms, the x, y and z of
\* the transformed_position that vertex_shader returns are finite.
C5_TransformedPositionFinite ==
    fn_out.op = "vertex" =>
       \A j \in 1..3 : IsFinite(fn_out.vertex.transformed_position[j])

\* The error, in thousandths, of a placement computed with a sine and a
\* cosine that are exact to two thousandths: two thousandths of the offset's
\* length, and the rounding of the two products.
OrbitTolerance(offset) == (2 * (Abs(offset[1]) + Abs(offset[2]))) \div 1000 + 2

\* C6: an object is placed at its initial offset rotated about the z axis by
\* time * orbital_speed: (x0 cos a - y0 sin a, x0 sin a + y0 cos a, z0).  The
\* offset (3, 0, 0) with speed 0.01 at time 100 gives (3 cos 1, 3 sin 1, 0)
\* = (1.621, 2.524, 0); z is never changed; the distance to the axis is kept;
\* an object of speed 0 stays at its offset.
C6_OrbitalPlacement ==
    fn_out.op = "orbit" =>
       LET object == solar_objects[fn_in.index + 1]
           offset == object.initial_translation
           a == (fn_in.time * object.orbital_speed) % TwoPiMrad
           placed == fn_out.translation
           tolerance == OrbitTolerance(offset)
       IN  /\ placed[3] = offset[3]
           /\ Abs(placed[1] - (offset[1] * Cos(a) - offset[2] * Sin(a)) \div 1000)
                 <= tolerance
           /\ Abs(placed[2] - (offset[1] * Sin(a) + offset[2] * Cos(a)) \div 1000)
                 <= tolerance
           /\ Abs((placed[1] * placed[1] + placed[2] * placed[2])
                     - (offset[1] * offset[1] + offset[2] * offset[2]))
                 <= tolerance * (2 * (Abs(offset[1]) + Abs(offset[2])) + tolerance)
           /\ object.orbital_speed = 0 => placed = offset
           /\ fn_in.time = 0 => placed = offset
           /\ (offset = <<3000, 0, 0>> /\ object.orbital_speed = 10
                 /\ fn_in.time = 100) =>
                 /\ Abs(placed[1] - 1621) <= tolerance
                 /\ Abs(placed[2] - 2524) <= tolerance
                 /\ placed[3] = 0

\* C6's case: the object of offset (3, 0, 0) and speed 0.01 placed at time 100.
C6_Witness ==
    /\ fn_out.op = "orbit"
    /\ fn_in.index = 1
    /\ fn_in.time = 100
    /\ fn_out.translation # solar_objects[2].initial_translation

\* The shader the claim binds to a tag.
BoundShader(tag, f, u) ==
    CASE tag = 0 -> [color |-> tatooine_shader(f, u), invoked |-> "tatooine"]
      [] tag = 1 -> [color |-> death_star_shader(f, u), invoked |-> "death_star"]
      [] tag = 2 -> [color |-> gaseoso_shader(f, u), invoked |-> "gaseoso"]
      [] tag = 3 -> [color |-> kamino_shader(f, u), invoked |-> "kamino"]
      [] tag = 4 -> [color |-> sol_shader(f, u), invoked |-> "sol"]
      [] tag = 5 -> [color |-> hoth_shader(f, u), invoked |-> "hoth"]
      [] tag = 6 -> [color |-> kashyyyk_shader(f, u), invoked |-> "kashyyyk"]

\* C9: fragment_shader returns a result for every tag 0..255: for a tag of
\* 0..6 the result of the one shader bound to it (0 tatooine, 1 death_star,
\* 2 gaseoso, 3 kamino, 4 sol, 5 hoth, 6 kashyyyk), seven distinct shaders that
\* are all the shaders there are; for a tag of 7..255 black, no shader invoked.
C9_DispatchByTag ==
    fn_out.op = "fragment" =>
       LET f == FragmentOf(fn_in)
           u == ShadingUniformsOf(fn_in)
           result == fn_out.result
       IN  /\ fn_in.tag \in 0..6 => result = BoundShader(fn_in.tag, f, u)
           /\ fn_in.tag \in 7..255 =>
                 result = [color |-> <<0, 0, 0>>, invoked |-> "none"]
           /\ \A s, t \in 0..6 : s # t => ShaderArm(s) # ShaderArm(t)
           /\ {ShaderArm(t) : t \in 0..6} = ShaderNames
           /\ \A t \in 7..255 : ShaderArm(t) \notin ShaderNames

\* C9's case: a tag with a shader whose colour is not black, and a tag
\* without one.
C9_Witness ==
    /\ fn_out.op = "fragment"
    /\ fn_in.tag = 1
    /\ fn_out.result.invoked = "death_star"
    /\ fn_out.result.color # <<0, 0, 0>>

C9_WitnessBlack ==
    /\ fn_out.op = "fragment"
    /\ fn_in.tag = 255
    /\ fn_out.result.invoked = "none"

\* C4 (as stated): after a retarget, the camera target and the position the
\* selected object is rendered at do not differ in more than one presented
\* frame in a row (diverged counts those frames while the camera is left
\* where the retarget put it).
C4_CameraFollowsOrbit == diverged <= 1

\* The steps of a frame, in the order of the loop body.
FrameOps ==
    <<"begin", "input", "reset">> \o [i \in 1..NumObjects |-> "render"] \o <<"present">>

WithoutRetarget(log) == SelectSeq(log, LAMBDA e : e.op # "retarget")

\* C7: the steps of a frame are, in this order, input handling, one reset of
\* the framebuffer, one render call per object in list order, one
\* presentation; the loop condition is evaluated only after the
\* presentation, and what was presented is the buffer all the objects were
\* rendered into.
C7_FrameSequencing ==
    LET log == WithoutRetarget(frame_log)
    IN  /\ Len(log) <= Len(FrameOps)
        /\ \A i \in 1..Len(log) :
              /\ log[i].op = FrameOps[i]
              /\ log[i].op = "render" => log[i].index = i - 4
        /\ (pc \in {"loop", "done"} /\ frames > 0) =>
              /\ Len(log) = Len(FrameOps)
              /\ presented.shown
              /\ presented.buffer = framebuffer.buffer
        /\ frames = 0 => (frame_log = <<>> /\ ~presented.shown)
        /\ pc = "present" => Len(log) = Len(FrameOps) - 1
        /\ pc = "objects" => Len(log) = 3 + obj

\* C7's case: a second frame has been presented.
C7_Witness ==
    /\ pc = "loop"
    /\ frames = 2
    /\ presented.shown
    /\ frame_log[Len(frame_log)].op = "present"

\* C8 (as stated): the time every object of a frame is rendered with is
\* greater than the time of the frame before, which is the value the
\* counter has when the frame begins.
C8_TimeStrictlyIncreasing ==
    \A i \in 1..Len(frame_log) :
       frame_log[i].op = "render" => U32Lt(frame_log[1].time, frame_log[i].time)

Retargets(log) == {i \in 1..Len(log) : log[i].op = "retarget"}

\* C10: current_planet_index is an index of solar_objects and starts at 0;
\* a frame in which N is pressed advances it by one, from the last object to
\* 0, and retargets the camera with the new index once, before the input
\* handling and the render calls of the frame; a frame in which N is not
\* pressed leaves it as it was and retargets nothing.
C10_NextObjectIndex ==
    /\ current_planet_index \in 0..(NumObjects - 1)
    /\ frames = 0 => current_planet_index = 0
    /\ Cardinality(Retargets(frame_log)) <= 1
    /\ \A i \in Retargets(frame_log) :
          /\ i = 2
          /\ frame_log[i].index =
                IF frame_log[1].index = NumObjects - 1
                THEN 0 ELSE frame_log[1].index + 1
          /\ current_planet_index = frame_log[i].index
          /\ \A j \in 1..Len(frame_log) :
                frame_log[j].op \in {"input", "render"} => j > i
    /\ (frame_log # <<>> /\ Retargets(frame_log) = {}) =>
          current_planet_index = frame_log[1].index

\* C10's case: N pressed with the last object selected.
C10_Witness ==
    /\ Len(frame_log) >= 3
    /\ frame_log[1].index = NumObjects - 1
    /\ frame_log[2].op = "retarget"
    /\ current_planet_index = 0
    /\ frame_log[3].op = "input"

\* C10's other case: a frame without N after one with it.
C10_WitnessNoPress ==
    /\ pc = "loop"
    /\ frames >= 2
    /\ Retargets(frame_log) = {}
    /\ current_planet_index = 2

=============================================================================
